---------------------------- MODULE Spec2Model ----------------------------
(***************************************************************************)
(* Model of the SQL-agent chat front-ends:                                 *)
(*   - the read-only driver hook prevent_modification_queries              *)
(*     (gemini_sql_agent.py, postgres_sql_agent.py),                       *)
(*   - the prompt pre-check validate_input and the Streamlit main() of     *)
(*     awsclaude_sql_agent.py,                                             *)
(*   - the markdown table normalizer fix_table_formatting                  *)
(*     (gemini_sql_agent.py).                                              *)
(* Python strings are sequences of one-character strings, so that          *)
(* lower/upper/strip/startswith/in/split/join are computed as Python       *)
(* computes them.                                                          *)
(***************************************************************************)
EXTENDS Integers, Sequences, FiniteSets, TLC

VARIABLES
    statement,    \* SQL text handed to the before_cursor_execute hook / validate_input
    hookResult,   \* "idle" | "raised" | "proceeded": outcome of the driver hook
    validResult,  \* "idle" | "True" | "False": return value of validate_input
    text,         \* argument of fix_table_formatting
    fixed,        \* <<"none">> or <<"some", fix_table_formatting(text)>>
    refixed,      \* <<"none">> or <<"some", fix_table_formatting(fixed)>>
    agent,        \* awsclaude: "unset" | "None" | "agent" (create_agent's result)
    messages,     \* awsclaude: st.session_state.messages
    agentCalls,   \* awsclaude: prompts handed to agent.run, in order
    shownError,   \* awsclaude: st.error text shown by the latest rerun ("" if none)
    lastEvent,    \* awsclaude: what the latest rerun of main() handled, with the
                  \* call count and the history it started from
    runs,         \* awsclaude: number of reruns of main() so far
    env,          \* awsclaude: what the environment lets get_db_connection/get_llm do
    dbCache,      \* awsclaude: st.cache_resource entry of get_db_connection ("unset" if none)
    connectAttempts, \* awsclaude: number of SQLDatabase.from_uri calls so far
    frontend,     \* chat: "gemini" | "postgres", the script that runs
    chatAgent,    \* chat: "unset" | "failed" | "partial" | "executor" (session_state after init)
    chatMessages, \* chat: st.session_state.messages
    chatLast,     \* chat: the latest submitted prompt and what the agent did with it
    chatRuns,     \* chat: number of submitted prompts handled so far
    smokePc,      \* smoke test: "start" | "psycopg2_done" | "sqlalchemy_done" | "exited"
    smokeEnv,     \* smoke test: what the database does to each probe
    psycopg2_result,   \* smoke test: return value of test_psycopg2_connection
    sqlalchemy_result, \* smoke test: return value of test_sqlalchemy_connection
    tablesResult, \* smoke test: "not_run" or the return value of test_tables
    exitStatus,   \* smoke test: argument of sys.exit ("none" before it)
    smokeLog      \* smoke test: the verdict lines printed so far

guardVars == <<statement, hookResult, validResult>>
fmtVars   == <<text, fixed, refixed>>
awsVars   == <<agent, messages, agentCalls, shownError, lastEvent, runs, env,
               dbCache, connectAttempts>>
chatVars  == <<frontend, chatAgent, chatMessages, chatLast, chatRuns>>
smokeVars == <<smokePc, smokeEnv, psycopg2_result, sqlalchemy_result,
               tablesResult, exitStatus, smokeLog>>
vars      == <<statement, hookResult, validResult, text, fixed, refixed,
               agent, messages, agentCalls, shownError, lastEvent, runs, env,
               dbCache, connectAttempts,
               frontend, chatAgent, chatMessages, chatLast, chatRuns,
               smokePc, smokeEnv, psycopg2_result, sqlalchemy_result,
               tablesResult, exitStatus, smokeLog>>

---------------------------------------------------------------------------
(* Bounds of the model *)

\* number of fragments a generated SQL statement is concatenated from
MaxFrags == 3
\* length, in characters, of a generated answer text
MaxTextLen == 7
\* number of reruns of awsclaude main() that handle an event
MaxRuns == 3
\* number of prompts submitted to a gemini / postgres front-end
MaxPrompts == 3

---------------------------------------------------------------------------
(* Python string primitives over character sequences *)

UpperChars == <<"A", "B", "C", "D", "E", "F", "G", "H", "I", "J", "K", "L", "M",
                "N", "O", "P", "Q", "R", "S", "T", "U", "V", "W", "X", "Y", "Z">>
LowerChars == <<"a", "b", "c", "d", "e", "f", "g", "h", "i", "j", "k", "l", "m",
                "n", "o", "p", "q", "r", "s", "t", "u", "v", "w", "x", "y", "z">>
AlphaIdx == DOMAIN UpperChars

\* the ASCII characters str.strip() removes
Whitespace == {" ", "\t", "\n", "\r"}

\* the lower-case letter of each upper-case letter, and the reverse
LowerOf == [c \in {UpperChars[i] : i \in AlphaIdx} |->
               LowerChars[CHOOSE i \in AlphaIdx : UpperChars[i] = c]]
UpperOf == [c \in {LowerChars[i] : i \in AlphaIdx} |->
               UpperChars[CHOOSE i \in AlphaIdx : LowerChars[i] = c]]

ToLower(c) == IF c \in DOMAIN LowerOf THEN LowerOf[c] ELSE c

ToUpper(c) == IF c \in DOMAIN UpperOf THEN UpperOf[c] ELSE c

\* str.lower()
Lower(s) == [i \in 1..Len(s) |-> ToLower(s[i])]

\* str.upper()
Upper(s) == [i \in 1..Len(s) |-> ToUpper(s[i])]

\* str.strip(): drop leading and trailing whitespace
Strip(s) ==
    LET keep == {i \in 1..Len(s) : s[i] \notin Whitespace}
    IN  IF keep = {} THEN <<>>
        ELSE SubSeq(s, CHOOSE i \in keep : \A j \in keep : i <= j,
                       CHOOSE i \in keep : \A j \in keep : i >= j)

\* str.startswith(p)
StartsWith(s, p) == Len(p) <= Len(s) /\ SubSeq(s, 1, Len(p)) = p

\* p in s (substring test)
Contains(s, p) ==
    \E i \in 1..(Len(s) - Len(p) + 1) : SubSeq(s, i, i + Len(p) - 1) = p

RECURSIVE Flatten(_)
Flatten(ss) == IF ss = <<>> THEN <<>> ELSE Head(ss) \o Flatten(Tail(ss))

---------------------------------------------------------------------------
(* The read-only guard *)

\* the prefixes tested by prevent_modification_queries
ModificationPrefixes == {
    <<"u", "p", "d", "a", "t", "e">>,
    <<"d", "e", "l", "e", "t", "e">>,
    <<"i", "n", "s", "e", "r", "t">>,
    <<"a", "l", "t", "e", "r">>,
    <<"d", "r", "o", "p">>,
    <<"t", "r", "u", "n", "c", "a", "t", "e">> }

\* the before_cursor_execute listener: raises for a statement whose
\* lower-cased, stripped text starts with a modification verb
prevent_modification_queries(stmt) ==
    LET statement_lower == Strip(Lower(stmt))
    IN  IF \E p \in ModificationPrefixes : StartsWith(statement_lower, p)
        THEN "raised" ELSE "proceeded"

\* dangerous_commands of validate_input
dangerous_commands == {
    <<"D", "R", "O", "P">>,
    <<"D", "E", "L", "E", "T", "E">>,
    <<"U", "P", "D", "A", "T", "E">>,
    <<"I", "N", "S", "E", "R", "T">> }

\* validate_input: False iff some dangerous command is a substring of query.upper()
validate_input(query) ==
    ~ \E cmd \in dangerous_commands : Contains(Upper(query), cmd)

---------------------------------------------------------------------------
(* Inputs of the guard: SQL statements concatenated from fragments *)

Fragments == {
    <<" ">>,
    <<";">>,
    <<"s", "e", "l", "e", "c", "t">>,
    <<"W", "i", "t", "h">>,
    <<"E", "X", "P", "L", "A", "I", "N">>,
    <<"s", "h", "o", "w">>,
    <<"D", "R", "O", "P">>,
    <<"D", "e", "l", "e", "t", "e">>,
    <<"i", "n", "s", "e", "r", "t">>,
    <<"U", "P", "D", "A", "T", "E">>,
    <<"a", "l", "t", "e", "r">>,
    <<"T", "r", "u", "n", "c", "a", "t", "e">>,
    <<"c", "r", "e", "a", "t", "e">>,
    <<"g", "r", "a", "n", "t">>,
    <<"u", "p", "d", "a", "t", "e", "d", "_", "a", "t">>,
    <<"t">> }

BatchExample ==
    <<"s", "e", "l", "e", "c", "t", " ", "*", " ", "f", "r", "o", "m", " ",
      "p", "l", "a", "y", "e", "r", "s", ";", " ", "D", "R", "O", "P", " ",
      "T", "A", "B", "L", "E", " ", "p", "l", "a", "y", "e", "r", "s", ";">>

SelectExample ==
    <<"S", "E", "L", "E", "C", "T", " ", "*", " ", "F", "R", "O", "M", " ",
      "p", "l", "a", "y", "e", "r", "s">>

Statements ==
    { Flatten(fs) : fs \in UNION { [1..n -> Fragments] : n \in 0..MaxFrags } }
    \cup {BatchExample, SelectExample}

---------------------------------------------------------------------------
(* Idle values of the variables a specification does not use *)

GuardIdle ==
    /\ statement = <<>>
    /\ hookResult = "idle"
    /\ validResult = "idle"

FmtIdle ==
    /\ text = <<>>
    /\ fixed = <<"none">>
    /\ refixed = <<"none">>

AwsIdle ==
    /\ agent = "unset"
    /\ messages = <<>>
    /\ agentCalls = <<>>
    /\ shownError = ""
    /\ lastEvent = [path |-> "none"]
    /\ runs = 0
    /\ env = [port_isdigit |-> TRUE, db_connects |-> TRUE, llm_ok |-> TRUE]
    /\ dbCache = "unset"
    /\ connectAttempts = 0

ChatIdle ==
    /\ frontend = "gemini"
    /\ chatAgent = "unset"
    /\ chatMessages = <<>>
    /\ chatLast = [kind |-> "none"]
    /\ chatRuns = 0

SmokeIdle ==
    /\ smokePc = "start"
    /\ smokeEnv = [psycopg2 |-> "one", sqlalchemy |-> "one", tables |-> "found"]
    /\ psycopg2_result = "none"
    /\ sqlalchemy_result = "none"
    /\ tablesResult = "not_run"
    /\ exitStatus = "none"
    /\ smokeLog = <<>>

---------------------------------------------------------------------------
(* SpecGuard: one statement reaches the driver hook and the prompt check *)

GuardInit ==
    /\ statement \in Statements
    /\ hookResult = "idle"
    /\ validResult = "idle"
    /\ FmtIdle
    /\ AwsIdle
    /\ ChatIdle
    /\ SmokeIdle

\* SQLAlchemy fires before_cursor_execute with the rendered statement
BeforeCursorExecute ==
    /\ hookResult = "idle"
    /\ hookResult' = prevent_modification_queries(statement)
    /\ UNCHANGED <<statement, validResult>>
    /\ UNCHANGED <<fmtVars, awsVars, chatVars, smokeVars>>

\* validate_input is called on the text
ValidateInputCall ==
    /\ validResult = "idle"
    /\ validResult' = IF validate_input(statement) THEN "True" ELSE "False"
    /\ UNCHANGED <<statement, hookResult>>
    /\ UNCHANGED <<fmtVars, awsVars, chatVars, smokeVars>>

GuardNext == BeforeCursorExecute \/ ValidateInputCall

SpecGuard == GuardInit /\ [][GuardNext]_vars

---------------------------------------------------------------------------
(* Vocabulary of the guard claims *)

Digits == {"0", "1", "2", "3", "4", "5", "6", "7", "8", "9"}
WordChars ==
    {UpperChars[i] : i \in AlphaIdx} \cup {LowerChars[i] : i \in AlphaIdx}
    \cup Digits \cup {"_"}

\* the trimmed, case-folded leading token: the longest prefix of word characters
LeadingToken(s) ==
    LET t == Strip(Lower(s))
        stop == {i \in 1..Len(t) : t[i] \notin WordChars}
    IN  IF stop = {} THEN t
        ELSE SubSeq(t, 1, (CHOOSE i \in stop : \A j \in stop : i <= j) - 1)

ReadAllowSet == {
    <<"s", "e", "l", "e", "c", "t">>,
    <<"w", "i", "t", "h">>,
    <<"e", "x", "p", "l", "a", "i", "n">>,
    <<"s", "h", "o", "w">> }

MutatingVerbs == {
    <<"U", "P", "D", "A", "T", "E">>,
    <<"D", "E", "L", "E", "T", "E">>,
    <<"I", "N", "S", "E", "R", "T">>,
    <<"A", "L", "T", "E", "R">>,
    <<"D", "R", "O", "P">>,
    <<"T", "R", "U", "N", "C", "A", "T", "E">>,
    <<"C", "R", "E", "A", "T", "E">> }

LeadingAllowed(s) == LeadingToken(s) \in ReadAllowSet

\* a mutating verb occurs somewhere in the text, as a substring
MentionsVerb(s) == \E v \in MutatingVerbs : Contains(Upper(s), v)

\* word w occurs in s as a standalone token (not inside a longer identifier)
HasToken(s, w) ==
    \E i \in 1..(Len(s) - Len(w) + 1) :
        /\ SubSeq(Upper(s), i, i + Len(w) - 1) = w
        /\ (i = 1 \/ s[i - 1] \notin WordChars)
        /\ (i + Len(w) > Len(s) \/ s[i + Len(w)] \notin WordChars)

HasVerbToken(s) == \E v \in MutatingVerbs : HasToken(s, v)

\* the trimmed, case-folded text starts with one of the six listed verbs
StartsWithModification(s) ==
    \E p \in ModificationPrefixes : StartsWith(Strip(Lower(s)), p)

---------------------------------------------------------------------------
(* Guard claims *)

\* C1: a statement proceeds past the driver hook only if its trimmed,
\* case-folded leading keyword is one of SELECT, WITH, EXPLAIN, SHOW.
C1_OnlyReadsProceed ==
    hookResult = "proceeded" => LeadingAllowed(statement)

\* C2: a statement with an allow-listed leading keyword and a mutating verb
\* anywhere later in its text is rejected by the driver hook.
C2_EmbeddedVerbRejected ==
    (hookResult # "idle" /\ LeadingAllowed(statement) /\ MentionsVerb(statement))
        => hookResult = "raised"

\* C3: a statement starting (trimmed, any case) with DROP, DELETE, INSERT,
\* UPDATE, ALTER or TRUNCATE is rejected by the hook and by validate_input.
C3_LeadingVerbRejected ==
    StartsWithModification(statement)
        => (hookResult # "proceeded" /\ validResult # "True")

\* C4: the empty string and every whitespace-only string is rejected by
\* validate_input and by the hook.
C4_EmptyRejected ==
    Strip(statement) = <<>>
        => (hookResult # "proceeded" /\ validResult # "True")

\* C5: a statement whose leading token is SELECT, WITH, EXPLAIN or SHOW and
\* which holds no mutating verb as a standalone token is accepted by
\* validate_input and by the hook.
C5_PureReadAccepted ==
    (LeadingAllowed(statement) /\ ~HasVerbToken(statement))
        => (hookResult # "raised" /\ validResult # "False")

---------------------------------------------------------------------------
(* The markdown table normalizer, fix_table_formatting *)

\* text.split('\n')
RECURSIVE Split(_)
Split(s) ==
    LET nl == {i \in 1..Len(s) : s[i] = "\n"}
    IN  IF nl = {} THEN <<s>>
        ELSE LET i == CHOOSE k \in nl : \A j \in nl : k <= j
             IN  <<SubSeq(s, 1, i - 1)>> \o Split(SubSeq(s, i + 1, Len(s)))

\* '\n'.join(fixed_lines)
RECURSIVE Join(_)
Join(ls) ==
    IF ls = <<>> THEN <<>>
    ELSE IF Len(ls) = 1 THEN ls[1]
    ELSE ls[1] \o <<"\n">> \o Join(Tail(ls))

\* a test that takes any line with a '|' after its first character for a table line
IsTableLine_anyPipe(line) == Contains(SubSeq(line, 2, Len(line)), <<"|">>)

\* line.strip().startswith('|') and '|' in line[1:]
IsTableLine(line) ==
    /\ StartsWith(Strip(line), <<"|">>)
    /\ Contains(SubSeq(line, 2, Len(line)), <<"|">>)

\* a start branch that does not look at the previous line
NeedsBlankBefore_always(lines, i) == i > 1

\* i > 0 and lines[i-1].strip() != ''   (i is 1-based here)
NeedsBlankBefore(lines, i) == i > 1 /\ Strip(lines[i - 1]) # <<>>

\* an end branch that never separates the table from the text after it
NeedsBlankAfter_never(line) == FALSE

\* an end branch that separates even when the line after the table is blank
NeedsBlankAfter_always(line) == TRUE

\* line.strip() != ''
NeedsBlankAfter(line) == Strip(line) # <<>>

\* a loop whose end-of-table branch forgets fixed_lines.append(line)
RECURSIVE FixLoop_dropsEndLine(_, _, _, _)
FixLoop_dropsEndLine(lines, i, fixed_lines, in_table) ==
    IF i > Len(lines) THEN fixed_lines
    ELSE LET line == lines[i] IN
         IF ~in_table /\ IsTableLine(line)
         THEN FixLoop_dropsEndLine(lines, i + 1,
                      Append(IF NeedsBlankBefore(lines, i)
                             THEN Append(fixed_lines, <<>>) ELSE fixed_lines,
                             line),
                      TRUE)
         ELSE IF in_table /\ ~IsTableLine(line)
         THEN FixLoop_dropsEndLine(lines, i + 1,
                      IF NeedsBlankAfter(line)
                      THEN Append(fixed_lines, <<>>) ELSE fixed_lines,
                      FALSE)
         ELSE FixLoop_dropsEndLine(lines, i + 1, Append(fixed_lines, line), in_table)

\* the for loop over enumerate(lines), from index i on
RECURSIVE FixLoop(_, _, _, _)
FixLoop(lines, i, fixed_lines, in_table) ==
    IF i > Len(lines) THEN fixed_lines
    ELSE LET line == lines[i] IN
         IF ~in_table /\ IsTableLine(line)
         THEN FixLoop(lines, i + 1,
                      Append(IF NeedsBlankBefore(lines, i)
                             THEN Append(fixed_lines, <<>>) ELSE fixed_lines,
                             line),
                      TRUE)
         ELSE IF in_table /\ ~IsTableLine(line)
         THEN FixLoop(lines, i + 1,
                      Append(IF NeedsBlankAfter(line)
                             THEN Append(fixed_lines, <<>>) ELSE fixed_lines,
                             line),
                      FALSE)
         ELSE FixLoop(lines, i + 1, Append(fixed_lines, line), in_table)

fix_table_formatting(t) == Join(FixLoop(Split(t), 1, <<>>, FALSE))

---------------------------------------------------------------------------
(* Inputs of the normalizer: every text over one character of each class   *)
(* the code distinguishes (pipe, other, whitespace, line break), and the   *)
(* worked examples                                                         *)

TextAlphabet == {"|", "a", " ", "\n"}

ResultsExample ==
    <<"R", "e", "s", "u", "l", "t", "s", ":", "\n",
      "|", "a", "|", "b", "|", "\n",
      "|", "1", "|", "2", "|", "\n",
      "D", "o", "n", "e">>

ResultsExampleFixed ==
    <<"R", "e", "s", "u", "l", "t", "s", ":", "\n", "\n",
      "|", "a", "|", "b", "|", "\n",
      "|", "1", "|", "2", "|", "\n", "\n",
      "D", "o", "n", "e">>

SingleTableLine == <<"|", "a", "|", "b", "|">>

Texts ==
    UNION { [1..n -> TextAlphabet] : n \in 0..MaxTextLen }
    \cup {ResultsExample, ResultsExampleFixed, SingleTableLine}

---------------------------------------------------------------------------
(* SpecFmt: an answer text is normalized, and the result normalized again *)

FmtInit ==
    /\ text \in Texts
    /\ fixed = <<"none">>
    /\ refixed = <<"none">>
    /\ GuardIdle
    /\ AwsIdle
    /\ ChatIdle
    /\ SmokeIdle

Normalize ==
    /\ fixed = <<"none">>
    /\ fixed' = <<"some", fix_table_formatting(text)>>
    /\ UNCHANGED <<text, refixed>>
    /\ UNCHANGED <<guardVars, awsVars, chatVars, smokeVars>>

NormalizeAgain ==
    /\ fixed # <<"none">>
    /\ refixed = <<"none">>
    /\ refixed' = <<"some", fix_table_formatting(fixed[2])>>
    /\ UNCHANGED <<text, fixed>>
    /\ UNCHANGED <<guardVars, awsVars, chatVars, smokeVars>>

FmtNext == Normalize \/ NormalizeAgain

SpecFmt == FmtInit /\ [][FmtNext]_vars

---------------------------------------------------------------------------
(* Vocabulary of the normalizer claims *)

\* a blank line: empty, or whitespace only
Blank(l) == Strip(l) = <<>>

\* a table line read literally: starts with '|' and holds one more '|'
LiteralTableLine(l) ==
    /\ StartsWith(l, <<"|">>)
    /\ Contains(SubSeq(l, 2, Len(l)), <<"|">>)

\* a table line with leading whitespace ignored: its first non-blank
\* character is '|' and a '|' stands after the line's first character
TrimmedTableLine(l) ==
    /\ Strip(l) # <<>>
    /\ Head(Strip(l)) = "|"
    /\ \E k \in 2..Len(l) : l[k] = "|"

\* every table block of ls, table lines told by T, has a blank line (or
\* the edge of the text) on both sides
Separated(ls, T(_)) ==
    \A i \in 1..Len(ls) :
        T(ls[i]) =>
            /\ (i = 1 \/ T(ls[i - 1]) \/ Blank(ls[i - 1]))
            /\ (i = Len(ls) \/ T(ls[i + 1]) \/ Blank(ls[i + 1]))

\* the text that separates every table block of ls from directly adjacent
\* non-blank text by one empty line, and changes nothing else
WithSeparators(ls) ==
    LET before(i) ==
            IF i > 1 /\ ~Blank(IF TrimmedTableLine(ls[i]) THEN ls[i - 1] ELSE ls[i])
                     /\ (TrimmedTableLine(ls[i]) # TrimmedTableLine(ls[i - 1]))
            THEN << <<>> >> ELSE <<>>
    IN  Flatten([i \in 1..Len(ls) |-> before(i) \o <<ls[i]>>])

---------------------------------------------------------------------------
(* Normalizer claims *)

\* C7: fix_table_formatting is idempotent: normalizing the normalized text
\* gives the normalized text again.
C7_Idempotent ==
    refixed # <<"none">> => refixed[2] = fixed[2]

\* C7 witness: a text that the first application changed has been
\* normalized a second time
C7_Witness ==
    /\ refixed # <<"none">>
    /\ fixed[2] # text

RECURSIVE OnlyEmptyLinesAdded(_, _)
OnlyEmptyLinesAdded(ins, out) ==
    IF out = <<>> THEN ins = <<>>
    ELSE \/ ins # <<>> /\ Head(out) = Head(ins)
                      /\ OnlyEmptyLinesAdded(Tail(ins), Tail(out))
         \/ Head(out) = <<>> /\ OnlyEmptyLinesAdded(ins, Tail(out))

\* C11: the output of fix_table_formatting holds every input line exactly
\* once, unmodified and in the original order, blank input lines included,
\* and every further output line is an empty line.
C11_ContentPreserved ==
    fixed # <<"none">> =>
        OnlyEmptyLinesAdded(Split(text), Split(fixed[2]))

\* C11 witness: a text with a blank line of its own and a table that ends
\* against non-blank text has been normalized, and lines were added
C11_Witness ==
    /\ fixed # <<"none">>
    /\ Len(Split(fixed[2])) > Len(Split(text))
    /\ \E i \in 1..Len(Split(text)) : Blank(Split(text)[i])
    /\ \E i \in 2..Len(Split(text)) :
           IsTableLine(Split(text)[i - 1]) /\ ~IsTableLine(Split(text)[i])
                                           /\ ~Blank(Split(text)[i])

---------------------------------------------------------------------------
(* awsclaude_sql_agent.py: main() *)

GreetingText ==
    <<"H", "e", "l", "l", "o", "!", " ", "I", " ", "c", "a", "n", " ",
      "h", "e", "l", "p", " ", "y", "o", "u", " ", "q", "u", "e", "r",
      "y", " ", "y", "o", "u", "r", " ", "P", "o", "s", "t", "g", "r",
      "e", "S", "Q", "L", " ", "d", "a", "t", "a", "b", "a", "s", "e",
      ".", " ", "W", "h", "a", "t", " ", "w", "o", "u", "l", "d", " ",
      "y", "o", "u", " ", "l", "i", "k", "e", " ", "t", "o", " ", "k",
      "n", "o", "w", "?">>

SampleQuery1 ==
    <<"H", "o", "w", " ", "m", "a", "n", "y", " ", "u", "s", "e", "r",
      "s", " ", "s", "i", "g", "n", "e", "d", " ", "u", "p", " ", "l",
      "a", "s", "t", " ", "m", "o", "n", "t", "h", "?">>
SampleQuery2 ==
    <<"W", "h", "a", "t", " ", "i", "s", " ", "t", "h", "e", " ", "t",
      "o", "t", "a", "l", " ", "r", "e", "v", "e", "n", "u", "e", " ",
      "f", "o", "r", " ", "t", "h", "i", "s", " ", "y", "e", "a", "r",
      "?">>
SampleQuery3 ==
    <<"L", "i", "s", "t", " ", "t", "h", "e", " ", "t", "o", "p", " ",
      "5", " ", "p", "r", "o", "d", "u", "c", "t", "s", " ", "b", "y",
      " ", "s", "a", "l", "e", "s", ".">>
SampleQuery4 ==
    <<"S", "h", "o", "w", " ", "m", "e", " ", "t", "h", "e", " ", "a",
      "v", "e", "r", "a", "g", "e", " ", "o", "r", "d", "e", "r", " ",
      "v", "a", "l", "u", "e", ".">>

sample_queries == <<SampleQuery1, SampleQuery2, SampleQuery3, SampleQuery4>>

InitFailedError == "Failed to initialize the SQL agent."
NotAllowedError == "This query is not allowed."

\* get_db_connection: None on a non-digit DB_PORT or a failed connection
get_db_connection(e) ==
    IF ~e.port_isdigit THEN "None"
    ELSE IF ~e.db_connects THEN "None"
    ELSE "db"

\* get_db_connection reaches SQLDatabase.from_uri only past the port check
db_connect_attempted(e) == e.port_isdigit

\* the call of get_db_connection under st.cache_resource: its body runs on
\* the first call only; env does not change, so the cached value is
\* get_db_connection(env) from then on
CachedGetDbConnection ==
    /\ dbCache' = IF dbCache = "unset" THEN get_db_connection(env) ELSE dbCache
    /\ connectAttempts' =
           IF dbCache = "unset" /\ db_connect_attempted(env)
           THEN connectAttempts + 1 ELSE connectAttempts

\* get_llm: None when the credentials are missing or ChatBedrock fails
get_llm(e) == IF e.llm_ok THEN "llm" ELSE "None"

\* a create_agent that gives up only when both are missing
create_agent_both(e) ==
    IF get_db_connection(e) = "None" /\ get_llm(e) = "None" THEN "None"
    ELSE "agent"

\* create_agent: None unless both the database and the model are there
create_agent(e) ==
    IF get_db_connection(e) = "None" \/ get_llm(e) = "None" THEN "None"
    ELSE "agent"

\* st.session_state.messages after the "messages" not in session_state test
SessionMessages ==
    IF messages = <<>>
    THEN <<[role |-> "assistant", content |-> GreetingText]>>
    ELSE messages

UserMsg(c) == [role |-> "user", content |-> c]
AssistantMsg(c) == [role |-> "assistant", content |-> c]

\* main() returns right after st.error when create_agent() gave None
MainReturnsEarly ==
    /\ messages' = SessionMessages
    /\ shownError' = InitFailedError
    /\ lastEvent' = [path |-> "returned"]
    /\ UNCHANGED agentCalls

\* a rerun of main() with no widget event
Main_Load ==
    /\ runs < MaxRuns
    /\ runs' = runs + 1
    /\ agent' = create_agent(env)
    /\ CachedGetDbConnection
    /\ IF create_agent(env) = "None" THEN MainReturnsEarly
       ELSE /\ messages' = SessionMessages
            /\ shownError' = ""
            /\ lastEvent' = [path |-> "load"]
            /\ UNCHANGED agentCalls
    /\ UNCHANGED env
    /\ UNCHANGED <<guardVars, fmtVars, chatVars, smokeVars>>

\* a rerun of main() in which the sidebar button of query is clicked;
\* response is what run_agent_query returns if it is called
Main_SidebarClick(query, response) ==
    /\ runs < MaxRuns
    /\ runs' = runs + 1
    /\ agent' = create_agent(env)
    /\ CachedGetDbConnection
    /\ IF create_agent(env) = "None" THEN MainReturnsEarly
       ELSE /\ lastEvent' = [path |-> "sidebar", prompt |-> query,
                             callsBefore |-> Len(agentCalls),
                             historyBefore |-> SessionMessages]
            /\ IF validate_input(query)
               THEN /\ messages' = SessionMessages \o
                                   <<UserMsg(query), AssistantMsg(response)>>
                    /\ agentCalls' = Append(agentCalls, query)
                    /\ shownError' = ""
               ELSE /\ messages' = Append(SessionMessages, UserMsg(query))
                    /\ shownError' = NotAllowedError
                    /\ UNCHANGED agentCalls
    /\ UNCHANGED env
    /\ UNCHANGED <<guardVars, fmtVars, chatVars, smokeVars>>

\* a chat handler that appends and runs the agent whatever validate_input says
Main_ChatInput_ungated(prompt, response) ==
    /\ runs < MaxRuns
    /\ runs' = runs + 1
    /\ agent' = create_agent(env)
    /\ CachedGetDbConnection
    /\ IF create_agent(env) = "None" THEN MainReturnsEarly
       ELSE /\ lastEvent' = [path |-> "chat", prompt |-> prompt,
                             callsBefore |-> Len(agentCalls),
                             historyBefore |-> SessionMessages]
            /\ messages' = SessionMessages \o
                           <<UserMsg(prompt), AssistantMsg(response)>>
            /\ agentCalls' = Append(agentCalls, prompt)
            /\ shownError' = ""
    /\ UNCHANGED env
    /\ UNCHANGED <<guardVars, fmtVars, chatVars, smokeVars>>

\* a chat handler that, like the sidebar, appends the user entry before
\* it validates
Main_ChatInput_appendsFirst(prompt, response) ==
    /\ runs < MaxRuns
    /\ runs' = runs + 1
    /\ agent' = create_agent(env)
    /\ CachedGetDbConnection
    /\ IF create_agent(env) = "None" THEN MainReturnsEarly
       ELSE /\ lastEvent' = [path |-> "chat", prompt |-> prompt,
                             callsBefore |-> Len(agentCalls),
                             historyBefore |-> SessionMessages]
            /\ IF validate_input(prompt)
               THEN /\ messages' = SessionMessages \o
                                   <<UserMsg(prompt), AssistantMsg(response)>>
                    /\ agentCalls' = Append(agentCalls, prompt)
                    /\ shownError' = ""
               ELSE /\ messages' = Append(SessionMessages, UserMsg(prompt))
                    /\ shownError' = NotAllowedError
                    /\ UNCHANGED agentCalls
    /\ UNCHANGED env
    /\ UNCHANGED <<guardVars, fmtVars, chatVars, smokeVars>>

\* a rerun of main() in which st.chat_input returns prompt
Main_ChatInput(prompt, response) ==
    /\ runs < MaxRuns
    /\ runs' = runs + 1
    /\ agent' = create_agent(env)
    /\ CachedGetDbConnection
    /\ IF create_agent(env) = "None" THEN MainReturnsEarly
       ELSE /\ lastEvent' = [path |-> "chat", prompt |-> prompt,
                             callsBefore |-> Len(agentCalls),
                             historyBefore |-> SessionMessages]
            /\ IF validate_input(prompt)
               THEN /\ messages' = SessionMessages \o
                                   <<UserMsg(prompt), AssistantMsg(response)>>
                    /\ agentCalls' = Append(agentCalls, prompt)
                    /\ shownError' = ""
               ELSE /\ messages' = SessionMessages
                    /\ shownError' = NotAllowedError
                    /\ UNCHANGED agentCalls
    /\ UNCHANGED env
    /\ UNCHANGED <<guardVars, fmtVars, chatVars, smokeVars>>

---------------------------------------------------------------------------
(* Inputs of main(): typed prompts, and what run_agent_query can return *)

ChatPrompts == {
    <<"d", "r", "o", "p", " ", "t", "h", "e", " ", "u", "s", "e", "r",
      "s", " ", "t", "a", "b", "l", "e">>,
    <<"S", "h", "o", "w", " ", "r", "e", "c", "e", "n", "t", "l", "y",
      " ", "u", "p", "d", "a", "t", "e", "d", " ", "p", "l", "a", "y",
      "e", "r", "s">>,
    <<"L", "i", "s", "t", " ", "a", "l", "l", " ", "c", "o", "a", "c",
      "h", "e", "s">>,
    <<"H", "o", "w", " ", "m", "a", "n", "y", " ", "p", "l", "a", "y",
      "e", "r", "s", "?">> }

\* run_agent_query returns the agent's answer, or "Error: ..." when agent.run raised
Responses == {
    <<"o", "k">>,
    <<"E", "r", "r", "o", "r", ":", " ", "t", "i", "m", "e", "o", "u", "t">> }

Environments ==
    [port_isdigit : BOOLEAN, db_connects : BOOLEAN, llm_ok : BOOLEAN]

---------------------------------------------------------------------------
(* Spec: the awsclaude front-end, one rerun of main() per step *)

Init ==
    /\ agent = "unset"
    /\ messages = <<>>
    /\ agentCalls = <<>>
    /\ shownError = ""
    /\ lastEvent = [path |-> "none"]
    /\ runs = 0
    /\ env \in Environments
    /\ dbCache = "unset"
    /\ connectAttempts = 0
    /\ GuardIdle
    /\ FmtIdle
    /\ ChatIdle
    /\ SmokeIdle

Next ==
    \/ Main_Load
    \/ \E i \in DOMAIN sample_queries, r \in Responses :
           Main_SidebarClick(sample_queries[i], r)
    \/ \E p \in ChatPrompts, r \in Responses : Main_ChatInput(p, r)

Spec == Init /\ [][Next]_vars

---------------------------------------------------------------------------
(* Front-end claims *)

\* the latest rerun handled a prompt that validate_input rejects
LastPromptRejected ==
    /\ lastEvent.path \in {"chat", "sidebar"}
    /\ \E cmd \in dangerous_commands : Contains(Upper(lastEvent.prompt), cmd)

\* C6: in awsclaude main, a prompt on which validate_input returns False is
\* never handed to agent.run, in the rerun that rejects it or later, and
\* the error "This query is not allowed." is shown for it.
C6_RejectedNeverRun ==
    /\ \A i \in 1..Len(agentCalls) :
           ~ \E cmd \in dangerous_commands : Contains(Upper(agentCalls[i]), cmd)
    /\ LastPromptRejected =>
           /\ Len(agentCalls) = lastEvent.callsBefore
           /\ shownError = NotAllowedError

\* C6 witness: after at least one agent call, a typed prompt has been rejected
C6_Witness ==
    /\ LastPromptRejected
    /\ lastEvent.path = "chat"
    /\ Len(agentCalls) >= 1
    /\ shownError = NotAllowedError

\* C13: in awsclaude main a rerun that rejects a prompt leaves
\* st.session_state.messages as it was, on the chat-input path and on the
\* sidebar path; every user entry of the history passed validate_input.
C13_RejectedLeavesHistory ==
    /\ LastPromptRejected => messages = lastEvent.historyBefore
    /\ \A i \in 1..Len(messages) :
           messages[i].role = "user" =>
               ~ \E cmd \in dangerous_commands :
                     Contains(Upper(messages[i].content), cmd)

\* C13 witness: a typed prompt has been rejected in a session whose
\* history already holds an exchange
C13_Witness ==
    /\ LastPromptRejected
    /\ lastEvent.path = "chat"
    /\ Len(messages) >= 3
    /\ messages[Len(messages)].role = "assistant"

\* C14: awsclaude initialization fails closed. With a DB_PORT that is not
\* all digits get_db_connection gives None and no connection is attempted;
\* with the database or the model missing create_agent gives None; and
\* with no agent main returns before it handles a click or a prompt: no
\* agent call is made and the history holds the greeting only.
C14_InitFailsClosed ==
    /\ ~env.port_isdigit =>
           /\ connectAttempts = 0
           /\ dbCache \in {"unset", "None"}
           /\ (runs >= 1 => dbCache = "None")
    /\ (runs >= 1 /\ (~env.port_isdigit \/ ~env.db_connects \/ ~env.llm_ok))
           => agent = "None"
    /\ agent = "None" =>
           /\ agentCalls = <<>>
           /\ messages = <<[role |-> "assistant", content |-> GreetingText]>>
           /\ lastEvent = [path |-> "returned"]
           /\ shownError = InitFailedError

\* C14 witness: main has been rerun several times with a DB_PORT that is
\* not a number and a working model
C14_Witness ==
    /\ ~env.port_isdigit
    /\ env.llm_ok
    /\ runs >= 2
    /\ agent = "None"

---------------------------------------------------------------------------
(* gemini_sql_agent.py and postgres_sql_agent.py: the script, rerun by     *)
(* Streamlit on every event                                                *)

\* the text of the exception prevent_modification_queries raises; its
\* first character stands for the warning sign
ReadOnlyMessage ==
    <<"!", " ", "T", "h", "i", "s", " ", "a", "p", "p", "l", "i", "c",
      "a", "t", "i", "o", "n", " ", "i", "s", " ", "s", "e", "t", " ",
      "t", "o", " ", "r", "e", "a", "d", "-", "o", "n", "l", "y", " ",
      "m", "o", "d", "e", ".", " ", "M", "o", "d", "i", "f", "i", "c",
      "a", "t", "i", "o", "n", " ", "q", "u", "e", "r", "i", "e", "s",
      " ", "a", "r", "e", " ", "n", "o", "t", " ", "a", "l", "l", "o",
      "w", "e", "d", ".">>

\* str(e) of another failure of agent_executor.invoke (model or network)
InvokeFailureMessage ==
    <<"t", "i", "m", "e", "o", "u", "t">>

\* str(e) of the AttributeError when st.session_state has no agent_executor
NoExecutorMessage ==
    <<"s", "t", ".", "s", "e", "s", "s", "i", "o", "n", "_", "s", "t",
      "a", "t", "e", " ", "h", "a", "s", " ", "n", "o", " ", "a", "t",
      "t", "r", "i", "b", "u", "t", "e", " ", "'", "a", "g", "e", "n",
      "t", "_", "e", "x", "e", "c", "u", "t", "o", "r", "'">>

ErrorPrefix == <<"E", "r", "r", "o", "r", ":", " ">>

\* the initialisation block: skipped once agent_executor is in the session
\* state; otherwise it runs again and ends with the executor stored
\* ("executor"), with an exception after table_names was stored ("partial"),
\* or with an exception before that ("failed")
InitOutcomes(now) ==
    IF now = "executor" THEN {"executor"}
    ELSE IF now = "partial" THEN {"executor", "partial"}
    ELSE {"executor", "partial", "failed"}

\* the sidebar reads st.session_state.table_names: the script gets past it,
\* and so renders and handles st.chat_input, only if table_names is stored
SidebarRenders(a) == a \in {"executor", "partial"}

\* agent_executor.invoke: raises when the executor is missing, when the
\* hook raises on a statement the agent sends to the database, or when the
\* model call fails; otherwise returns the answer in response["output"]
Invoke(a, stmts, fails, answer) ==
    IF a # "executor"
    THEN [raised |-> TRUE, value |-> NoExecutorMessage]
    ELSE IF \E i \in 1..Len(stmts) : prevent_modification_queries(stmts[i]) = "raised"
    THEN [raised |-> TRUE, value |-> ReadOnlyMessage]
    ELSE IF fails
    THEN [raised |-> TRUE, value |-> InvokeFailureMessage]
    ELSE [raised |-> FALSE, value |-> answer]

\* a handler that leaves the history without an assistant entry when
\* invoke raises
AssistantContent_silentOnError(f, res) ==
    IF res.raised THEN <<>>
    ELSE IF f = "gemini" THEN << fix_table_formatting(res.value) >>
    ELSE << res.value >>

\* the assistant entries the try/except appends: the response (gemini:
\* after fix_table_formatting) or f"Error: {str(e)}"
AssistantContent(f, res) ==
    IF res.raised THEN << ErrorPrefix \o res.value >>
    ELSE IF f = "gemini" THEN << fix_table_formatting(res.value) >>
    ELSE << res.value >>

\* a rerun without a submitted prompt (first load, or any other event)
Chat_Load(init) ==
    /\ init \in InitOutcomes(chatAgent)
    /\ chatAgent # init
    /\ chatAgent' = init
    /\ UNCHANGED <<frontend, chatMessages, chatLast, chatRuns>>
    /\ UNCHANGED <<guardVars, fmtVars, awsVars, smokeVars>>

\* a rerun in which st.chat_input returns prompt; the widget exists only
\* if the previous run got past the sidebar
Chat_Submit(prompt, init, stmts, fails, answer) ==
    /\ SidebarRenders(chatAgent)
    /\ chatRuns < MaxPrompts
    /\ init \in InitOutcomes(chatAgent)
    /\ chatAgent' = init
    /\ chatRuns' = chatRuns + 1
    /\ LET res == Invoke(init, stmts, fails, answer)
       IN  /\ chatMessages' =
                  Append(chatMessages, UserMsg(prompt)) \o
                  [i \in 1..Len(AssistantContent(frontend, res)) |->
                      AssistantMsg(AssistantContent(frontend, res)[i])]
           /\ chatLast' = [kind |-> "submit", prompt |-> prompt,
                           raised |-> res.raised, value |-> res.value]
    /\ UNCHANGED frontend
    /\ UNCHANGED <<guardVars, fmtVars, awsVars, smokeVars>>

---------------------------------------------------------------------------
(* Inputs of the chat front-ends *)

DropExample == <<"D", "R", "O", "P", " ", "t">>

\* the statements the agent sends to the database during one invoke
AgentStatements == { <<>>, <<SelectExample>>, <<SelectExample, DropExample>> }

PlainAnswer == <<"o", "k">>
TableAnswer == <<"a", "\n", "|", "b", "|">>
Answers == {PlainAnswer, TableAnswer}

SubmittedPrompts == {
    <<"L", "i", "s", "t", " ", "a", "l", "l", " ", "c", "o", "a", "c",
      "h", "e", "s">>,
    <<"H", "o", "w", " ", "m", "a", "n", "y", " ", "p", "l", "a", "y",
      "e", "r", "s", "?">> }

---------------------------------------------------------------------------
(* SpecChat: a gemini or postgres front-end session *)

ChatInit ==
    /\ frontend \in {"gemini", "postgres"}
    /\ chatAgent = "unset"
    /\ chatMessages = <<>>
    /\ chatLast = [kind |-> "none"]
    /\ chatRuns = 0
    /\ GuardIdle
    /\ FmtIdle
    /\ AwsIdle
    /\ SmokeIdle

ChatNext ==
    \/ \E init \in {"executor", "partial", "failed"} : Chat_Load(init)
    \/ \E p \in SubmittedPrompts, init \in {"executor", "partial"},
          q \in AgentStatements, f \in BOOLEAN, a \in Answers :
           Chat_Submit(p, init, q, f, a)

SpecChat == ChatInit /\ [][ChatNext]_vars

---------------------------------------------------------------------------
(* Chat front-end claims *)

\* user, assistant, user, assistant, ...: two entries per handled prompt
Alternating(ms) ==
    \A i \in 1..Len(ms) :
        ms[i].role = IF i % 2 = 1 THEN "user" ELSE "assistant"

\* the history ends with the latest prompt and the entry c for it
EndsWithExchange(ms, c) ==
    /\ Len(ms) >= 2
    /\ ms[Len(ms) - 1] = [role |-> "user", content |-> chatLast.prompt]
    /\ ms[Len(ms)] = [role |-> "assistant", content |-> c]

\* C12 as stated: the history alternates user, assistant from a user
\* entry on; each submitted prompt appends one user entry and one
\* assistant entry, which is the agent's answer on success and
\* "Error: ..." when the invocation raised.
C12_HistoryShapeRawAnswer ==
    /\ Alternating(chatMessages)
    /\ Len(chatMessages) = 2 * chatRuns
    /\ chatLast.kind = "submit" =>
           EndsWithExchange(chatMessages,
               IF chatLast.raised THEN ErrorPrefix \o chatLast.value
               ELSE chatLast.value)

\* C12 amended: the same, the assistant entry on success being the agent's
\* answer in the postgres front-end and the answer as returned by
\* fix_table_formatting in the gemini front-end.
C12_HistoryShape ==
    /\ Alternating(chatMessages)
    /\ Len(chatMessages) = 2 * chatRuns
    /\ chatLast.kind = "submit" =>
           EndsWithExchange(chatMessages,
               IF chatLast.raised THEN ErrorPrefix \o chatLast.value
               ELSE IF frontend = "gemini"
               THEN Join(WithSeparators(Split(chatLast.value)))
               ELSE chatLast.value)

\* C12 witness: after a prompt that ended in the read-only error, another
\* prompt has been answered with a table
C12_Witness ==
    /\ chatLast.kind = "submit"
    /\ ~chatLast.raised
    /\ chatLast.value = TableAnswer
    /\ \E i \in 1..Len(chatMessages) :
           chatMessages[i] = [role |-> "assistant",
                              content |-> ErrorPrefix \o ReadOnlyMessage]

---------------------------------------------------------------------------
(* test_connection.py: the connection smoke test *)

\* what the database does to a SELECT 1 probe: the connection or the query
\* raises, the row is (1,), the row holds another value, or there is no row
ProbeOutcomes == {"raises", "one", "other", "norow"}

\* what test_tables meets: tables, none, or an exception
TableOutcomes == {"found", "empty", "raises"}

\* test_psycopg2_connection / test_sqlalchemy_connection: False only when
\* an exception was raised; the result of the probe only picks the line
\* that is printed
ConnectionTest(name, probe) ==
    IF probe = "raises"
    THEN [ret |-> "False", line |-> name \o " connection error"]
    ELSE IF probe = "one"
    THEN [ret |-> "True", line |-> name \o " connection successful!"]
    ELSE [ret |-> "True", line |-> name \o " connection failed"]

\* test_tables: False only when an exception was raised
test_tables(outcome) == IF outcome = "raises" THEN "False" ELSE "True"

\* psycopg2_result = test_psycopg2_connection()
Smoke_Psycopg2 ==
    /\ smokePc = "start"
    /\ smokePc' = "psycopg2_done"
    /\ psycopg2_result' = ConnectionTest("psycopg2", smokeEnv.psycopg2).ret
    /\ smokeLog' = Append(smokeLog, ConnectionTest("psycopg2", smokeEnv.psycopg2).line)
    /\ UNCHANGED <<smokeEnv, sqlalchemy_result, tablesResult, exitStatus>>
    /\ UNCHANGED <<guardVars, fmtVars, awsVars, chatVars>>

\* sqlalchemy_result = test_sqlalchemy_connection()
Smoke_SqlAlchemy ==
    /\ smokePc = "psycopg2_done"
    /\ smokePc' = "sqlalchemy_done"
    /\ sqlalchemy_result' = ConnectionTest("SQLAlchemy", smokeEnv.sqlalchemy).ret
    /\ smokeLog' = Append(smokeLog, ConnectionTest("SQLAlchemy", smokeEnv.sqlalchemy).line)
    /\ UNCHANGED <<smokeEnv, psycopg2_result, tablesResult, exitStatus>>
    /\ UNCHANGED <<guardVars, fmtVars, awsVars, chatVars>>

\* the final if: the summary line, test_tables() and sys.exit
Smoke_Exit ==
    /\ smokePc = "sqlalchemy_done"
    /\ smokePc' = "exited"
    /\ IF psycopg2_result = "True" /\ sqlalchemy_result = "True"
       THEN /\ smokeLog' = Append(smokeLog, "All connection tests passed!")
            /\ tablesResult' = test_tables(smokeEnv.tables)
            /\ exitStatus' = "0"
       ELSE /\ smokeLog' = Append(smokeLog, "Some connection tests failed")
            /\ tablesResult' = "not_run"
            /\ exitStatus' = "1"
    /\ UNCHANGED <<smokeEnv, psycopg2_result, sqlalchemy_result>>
    /\ UNCHANGED <<guardVars, fmtVars, awsVars, chatVars>>

---------------------------------------------------------------------------
(* SpecSmoke: one run of the smoke test against some database *)

SmokeInit ==
    /\ smokePc = "start"
    /\ smokeEnv \in [psycopg2 : ProbeOutcomes, sqlalchemy : ProbeOutcomes,
                     tables : TableOutcomes]
    /\ psycopg2_result = "none"
    /\ sqlalchemy_result = "none"
    /\ tablesResult = "not_run"
    /\ exitStatus = "none"
    /\ smokeLog = <<>>
    /\ GuardIdle
    /\ FmtIdle
    /\ AwsIdle
    /\ ChatIdle

SmokeNext == Smoke_Psycopg2 \/ Smoke_SqlAlchemy \/ Smoke_Exit

SpecSmoke == SmokeInit /\ [][SmokeNext]_vars

---------------------------------------------------------------------------
(* Smoke test claim *)

\* C15: the smoke test exits with status 0 if and only if both connection
\* tests report success; a connection test reports success only when its
\* SELECT 1 probe returned 1; test_tables runs only after both succeeded
\* and its outcome does not change the exit status.
C15_ExitZeroIffProbesReturnedOne ==
    smokePc = "exited" =>
        /\ (exitStatus = "0") <=>
               (psycopg2_result = "True" /\ sqlalchemy_result = "True")
        /\ psycopg2_result = "True" => smokeEnv.psycopg2 = "one"
        /\ sqlalchemy_result = "True" => smokeEnv.sqlalchemy = "one"
        /\ tablesResult # "not_run" =>
               (psycopg2_result = "True" /\ sqlalchemy_result = "True")
        /\ (psycopg2_result = "True" /\ sqlalchemy_result = "True") =>
               (tablesResult \in {"True", "False"} /\ exitStatus = "0")

=============================================================================
